---- MODULE Spec2Model ----
(***************************************************************************)
(* A model of pcplanner's concurrent refresh pipeline.                     *)
(*                                                                         *)
(*   Spec        the task orchestrator: ScrapeManager, ScrapeWorker and    *)
(*               the ThreadPoolExecutor it drives (src/services/workers.py)*)
(*   SpecLedger  the price-history ledger: DataManager.update_item_history *)
(*               and reset_item_history (src/core/data_manager.py), under  *)
(*               a system clock that may be set back                       *)
(*   SpecLedgerForward  the ledger under a clock that only moves forward   *)
(*   SpecFair    the orchestrator under fair scheduling of its threads     *)
(*   SpecCancel  the orchestrator with the history of the cancel requests  *)
(*   SpecItems   the ledger's calls on the tables, for two item ids       *)
(*   SpecSession the ledger's two calls followed statement by statement,   *)
(*               with the SQLAlchemy session they run in                   *)
(*   SpecPipeline  one item refreshed from product pages: scrape_tokopedia *)
(*               (src/core/scraper.py), the worker's item_scraped and      *)
(*               PCPlanner._on_item_scraped (src/ui/main_window.py)        *)
(*   SpecScrape  one call of scrape_tokopedia after another, each followed *)
(*               request by request through its retry loop                 *)
(*   SpecCache   the image cache: the pool's threads in _task and          *)
(*               ScrapeWorker._get_image_bytes, statement by statement     *)
(***************************************************************************)
EXTENDS Integers, Sequences, FiniteSets, TLC

(***************************************************************************)
(* Bounds of the model.  MAX_WORKERS and MAX_HISTORY_ENTRIES are read from *)
(* config.json by src/config.py (defaults 8 and 90); the model runs them   *)
(* at small values so that a batch larger than the pool, and a history     *)
(* longer than the retention count, are reached.  MaxSetbacks caps how     *)
(* often the system clock is set back.                                     *)
(***************************************************************************)
MaxTasks == 3
MAX_WORKERS == 2
MAX_HISTORY_ENTRIES == 2
MaxSetbacks == 1

\* days enough to exceed the retention count and then prune
MaxDate == MAX_HISTORY_ENTRIES + 2

None == "None"

\* Optional[int]: an absent price, or a price
Absent == << >>
Some(x) == <<x>>

VARIABLES
    \* ---- the orchestrator (src/services/workers.py)
    worker_thread,  \* ScrapeManager.worker_thread: None or "Running"
    worker,         \* ScrapeManager.worker: None or "Worker"
    tasks,          \* ScrapeWorker.tasks, of the worker last created
    is_running,     \* ScrapeWorker.is_running, the shared cancel flag
    pc,             \* where ScrapeWorker.run is
    futures,        \* the state of each future run() submitted
    yielded,        \* the futures as_completed has yielded so far
    cur,            \* the future the loop body is handling (0: none)
    completed,      \* run()'s local counter
    queue,          \* worker signals posted to the manager's thread, undelivered
    events,         \* what the manager has emitted to its listener, this batch
    cancelled,      \* history: a stop() reached the worker of this batch
                    \* before the manager emitted its finished
    unstartedAtCancel, \* history: the futures not yet executing at that stop()
    in_on_finished, \* the manager is inside _on_finished, past its emit
    \* ---- the ledger (src/core/data_manager.py), one item
    current_price,  \* Item.current_price
    previous_price, \* Item.previous_price
    history,        \* the item's price_history rows, in insertion (id) order
    today,          \* datetime.date.today(), as a day number
    setbacks,       \* how often the system clock was set back
    calls,          \* history: the latest MAX_HISTORY_ENTRIES of the
                    \* update_item_history calls made since the history was
                    \* empty, while their dates strictly increase
    tracking,       \* history: calls is such a record
    last_op,        \* history: the operation that last acted on the item, if
                    \* any, with its date and its price (reset: the price
                    \* the item had)
    session,        \* the SQLAlchemy session of a call in progress, where
                    \* the call is followed statement by statement: what it
                    \* holds uncommitted
    \* ---- one call of scrape_tokopedia (src/core/scraper.py)
    url,            \* the url argument
    scrape_pc,      \* where the call is
    attempt,        \* the loop variable of the retry loop
    response,       \* the local response: None, or the status class of the
                    \* Response the last returning get gave
    outcomes,       \* history: how each page request of the call ended
    sleeps,         \* history: the time.sleep(retry_delay) calls of the call
    fetched,        \* the page the parsed response carried, if any
    result,         \* what the call returned
    \* ---- the image cache (ScrapeWorker._get_image_bytes), one image URL
    cache_file,     \* the file at cache_path: Absent, or its bytes so far
    scraped,        \* what scrape_tokopedia returned to each pool thread's
                    \* _task: the locals price and img_url
    fetch_pc,       \* where the thread's call of _get_image_bytes is
    written,        \* how much of data each thread's open file has taken
    img_bytes,      \* what each thread's call returned
    stored,         \* history: some call downloaded the image, wrote the
                    \* whole of it and returned
    after_store,    \* history: the call in progress began after such a call
                    \* returned
    \* ---- the item's profile data (src/core/models.py)
    image_url,      \* Item.image_url
    \* ---- what the caller's cancel requests met (history, kept by SpecCancel)
    after_cancel,   \* the terminal signals run() has emitted in this batch
                    \* since a cancel request reached it
    stray_cancel,   \* "requested": cancel was requested while no batch was
                    \* running; "before_batch": the batch was started after
                    \* such a request; "none" otherwise
    \* ---- the tables of the database (src/core/models.py), for two item ids
    items,          \* the table items: for each id Absent, or the row's
                    \* current_price and previous_price
    price_history,  \* the table price_history, in the order of its row ids:
                    \* item_id, date and price of each row
    missing_call    \* history: the latest call of the DataManager was an
                    \* update_item_history for an id with no row in items

orch == <<worker_thread, worker, tasks, is_running, pc, futures, yielded, cur,
          completed, queue, events, cancelled, unstartedAtCancel,
          in_on_finished>>

ledg == <<current_price, previous_price, history, today, setbacks, calls, tracking,
          last_op, session>>

scr == <<url, scrape_pc, attempt, response, outcomes, sleeps, fetched, result>>

img == <<cache_file, scraped, fetch_pc, written, img_bytes, stored, after_store>>

hist == <<after_cancel, stray_cancel>>

db == <<items, price_history, missing_call>>

vars == <<orch, ledg, scr, img, image_url, hist, db>>

\* what the steps of one part of the program leave alone
exceptOrch == <<ledg, scr, img, image_url, hist, db>>
exceptLedg == <<orch, scr, img, image_url, hist, db>>
exceptScr == <<orch, ledg, img, image_url, hist, db>>
exceptImg == <<orch, ledg, scr, image_url, hist, db>>
exceptOrchHist == <<ledg, scr, img, image_url, db>>
exceptDb == <<orch, ledg, scr, img, image_url, hist>>

(***************************************************************************)
(* The batches a caller hands to start(): the task dictionaries built by   *)
(* PCPlanner._start_scrape.  The second task carries no 'name' key.        *)
(***************************************************************************)
Names == <<"cpu", None, "gpu", "ram", "ssd", "psu">>

Task(i) == [id       |-> i,
            category |-> IF i % 2 = 1 THEN "components" ELSE "peripherals",
            link     |-> i,
            name     |-> Names[i]]

Batches == { [i \in 1..n |-> Task(i)] : n \in 0..MaxTasks }

\* info.get('name', 'Unknown Item')
item_name(info) == IF info.name = None THEN "Unknown Item" ELSE info.name

(***************************************************************************)
(* What future.result() can give run(): the pair (price, img_url) that     *)
(* _task returned, or the exception it raised.  The value is drawn where   *)
(* run() reads it; nothing reads a future's result before that.  The image *)
(* bytes, the third component, are not part of this specification.         *)
(***************************************************************************)
Prices == {Absent, Some(100)}
ImageUrls == {None, "img"}

TaskResults ==
    { [exc |-> None, price |-> p, img_url |-> u] : p \in Prices, u \in ImageUrls }
    \cup { [exc |-> "boom", price |-> Absent, img_url |-> None] }

Idx == 1..Len(futures)
Pending == { i \in Idx : futures[i] = "pending" }
Executing == { i \in Idx : futures[i] = "running" }
Done == { i \in Idx : futures[i] = "done" }

Min(S) == CHOOSE x \in S : \A y \in S : x <= y

\* mutant: a draining batch, its flag cleared, counts as not running
IsRunning_Flag == worker_thread # None /\ is_running

\* ScrapeManager.is_running: the thread object exists and runs its event loop
IsRunning == worker_thread # None

InitOrch ==
    /\ worker_thread = None
    /\ worker = None
    /\ tasks = << >>
    /\ is_running = TRUE
    /\ pc = "none"
    /\ futures = << >>
    /\ yielded = {}
    /\ cur = 0
    /\ completed = 0
    /\ queue = << >>
    /\ events = << >>
    /\ cancelled = FALSE
    /\ unstartedAtCancel = {}
    /\ in_on_finished = FALSE

(***************************************************************************)
(* ScrapeManager                                                           *)
(***************************************************************************)
\* ScrapeManager.start(tasks), with ScrapeWorker.__init__.  The task list is
\* read only after the is_running() test, so it is drawn there.
Start ==
    IF IsRunning
    THEN UNCHANGED orch
    ELSE \E ts \in Batches :
         /\ worker_thread' = "Running"
         /\ worker' = "Worker"
         /\ tasks' = ts
         /\ is_running' = TRUE
         /\ pc' = "spawned"
         /\ futures' = [i \in 1..Len(ts) |-> "pending"]
         /\ yielded' = {}
         /\ cur' = 0
         /\ completed' = 0
         /\ queue' = << >>
         /\ events' = << >>
         /\ cancelled' = FALSE
         /\ unstartedAtCancel' = {}
         /\ in_on_finished' = FALSE

\* the manager has emitted scraping_finished for this batch
FinishedDelivered == events # << >> /\ events[Len(events)].type = "finished"

\* mutant: cancel clears the flag whether or not there is a worker
Cancel_NoWorkerTest ==
    /\ is_running' = FALSE
    /\ cancelled' = (cancelled \/ (worker # None /\ ~FinishedDelivered))
    /\ unstartedAtCancel' = IF cancelled \/ worker = None THEN unstartedAtCancel
                            ELSE Pending
    /\ UNCHANGED <<worker_thread, worker, tasks, pc, futures, yielded, cur,
                   completed, queue, events, in_on_finished>>

\* ScrapeManager.cancel, with ScrapeWorker.stop
Cancel ==
    IF worker # None
    THEN /\ is_running' = FALSE
         /\ cancelled' = (cancelled \/ ~FinishedDelivered)
         /\ unstartedAtCancel' = IF cancelled THEN unstartedAtCancel ELSE Pending
         /\ UNCHANGED <<worker_thread, worker, tasks, pc, futures, yielded, cur,
                        completed, queue, events, in_on_finished>>
    ELSE UNCHANGED orch

\* mutant: every batch is reported as cancelled
WasCancelled_Always == TRUE

\* lines 159-161
WasCancelled == worker # None /\ ~is_running

\* ScrapeManager._on_finished, lines 159-163: scraping_finished is emitted,
\* and its listeners run, before the thread is stopped and forgotten
OnFinishedEmit ==
    /\ events' = Append(events, [type |-> "finished", was_cancelled |-> WasCancelled])
    /\ in_on_finished' = TRUE
    /\ UNCHANGED <<worker_thread, worker, tasks, is_running, pc, futures, yielded,
                   cur, completed, cancelled, unstartedAtCancel>>

\* ScrapeManager._on_finished, lines 164-168, once the listeners have returned
OnFinishedReturn ==
    /\ in_on_finished
    /\ in_on_finished' = FALSE
    /\ worker_thread' = None
    /\ worker' = None
    /\ is_running' = TRUE
    /\ pc' = "none"
    /\ futures' = << >>
    /\ yielded' = {}
    /\ cur' = 0
    /\ completed' = 0
    /\ UNCHANGED <<tasks, queue, events, cancelled, unstartedAtCancel>>

\* mutant: the manager's thread takes the worker's signals in any order
Deliver_AnyOrder ==
    /\ ~in_on_finished
    /\ \E k \in DOMAIN queue :
         /\ queue' = SubSeq(queue, 1, k - 1) \o SubSeq(queue, k + 1, Len(queue))
         /\ IF queue[k].type = "finished"
            THEN OnFinishedEmit
            ELSE /\ events' = Append(events, queue[k])
                 /\ UNCHANGED <<worker_thread, worker, tasks, is_running, pc,
                                futures, yielded, cur, completed, cancelled,
                                unstartedAtCancel, in_on_finished>>

\* The queued connections: the manager's thread, when it is not inside a
\* handler, takes the next worker signal and re-emits it to the listener, or
\* runs _on_finished for the worker's finished.
Deliver ==
    /\ ~in_on_finished
    /\ queue # << >>
    /\ queue' = Tail(queue)
    /\ IF Head(queue).type = "finished"
       THEN OnFinishedEmit
       ELSE /\ events' = Append(events, Head(queue))
            /\ UNCHANGED <<worker_thread, worker, tasks, is_running, pc, futures,
                           yielded, cur, completed, cancelled, unstartedAtCancel,
                           in_on_finished>>

(***************************************************************************)
(* ScrapeWorker.run                                                        *)
(***************************************************************************)
\* mutant: run() without its test for the empty batch
RunBegin_NoEmptyTest ==
    /\ pc = "spawned"
    /\ queue' = Append(queue, [type |-> "scraping_started", total |-> Len(tasks)])
    /\ pc' = "loop"
    /\ completed' = 0
    /\ UNCHANGED <<worker_thread, worker, tasks, is_running, futures, yielded, cur,
                   events, cancelled, unstartedAtCancel, in_on_finished>>

\* lines 67-82: the empty batch, scraping_started, the submission of every task
RunBegin ==
    /\ pc = "spawned"
    /\ IF tasks = << >>
       THEN /\ queue' = Append(queue, [type |-> "finished"])
            /\ pc' = "returned"
       ELSE /\ queue' = Append(queue, [type |-> "scraping_started", total |-> Len(tasks)])
            /\ pc' = "loop"
    /\ completed' = 0
    /\ UNCHANGED <<worker_thread, worker, tasks, is_running, futures, yielded, cur,
                   events, cancelled, unstartedAtCancel, in_on_finished>>

\* The executor is alive from the submission until shutdown(wait=True) returns.
ExecutorAlive == pc \in {"loop", "body", "shutdown"}

\* mutant: the pool starts a thread for every submitted work item
PoolCanStart_Unbounded(i) ==
    /\ ExecutorAlive
    /\ Pending # {}
    /\ i = Min(Pending)

\* A pool thread takes the next work item: FIFO, at most MAX_WORKERS threads.
\* Nothing on this path reads the cancel flag.
PoolCanStart(i) ==
    /\ ExecutorAlive
    /\ Pending # {}
    /\ i = Min(Pending)
    /\ Cardinality(Executing) < MAX_WORKERS

\* _task begins: scrape_tokopedia issues the page request
TaskStart(i) ==
    /\ PoolCanStart(i)
    /\ futures' = [futures EXCEPT ![i] = "running"]
    /\ UNCHANGED <<worker_thread, worker, tasks, is_running, pc, yielded, cur,
                   completed, queue, events, cancelled, unstartedAtCancel, in_on_finished>>

\* _task returns or raises: the future is done
TaskFinish(i) ==
    /\ i \in Executing
    /\ futures' = [futures EXCEPT ![i] = "done"]
    /\ UNCHANGED <<worker_thread, worker, tasks, is_running, pc, yielded, cur,
                   completed, queue, events, cancelled, unstartedAtCancel, in_on_finished>>

\* mutant: the loop never reads the flag
ShouldBreak_Never == FALSE

\* mutant: the flag is read in the loop's first iteration only
ShouldBreak_FirstOnly == ~is_running /\ yielded = {}

\* lines 85-87: the flag is read at the top of every iteration
ShouldBreak == ~is_running

\* lines 84-87: as_completed yields a finished future
LoopNext(i) ==
    /\ pc = "loop"
    /\ i \in Done \ yielded
    /\ yielded' = yielded \cup {i}
    /\ IF ShouldBreak
       THEN pc' = "shutdown" /\ cur' = 0
       ELSE pc' = "body" /\ cur' = i
    /\ UNCHANGED <<worker_thread, worker, tasks, is_running, futures, completed,
                   queue, events, cancelled, unstartedAtCancel, in_on_finished>>

\* mutant: the loop ends after the first future
LoopExhausted_Early ==
    /\ pc = "loop"
    /\ yielded # {}
    /\ pc' = "shutdown"
    /\ UNCHANGED <<worker_thread, worker, tasks, is_running, futures, yielded, cur,
                   completed, queue, events, cancelled, unstartedAtCancel, in_on_finished>>

\* as_completed is exhausted
LoopExhausted ==
    /\ pc = "loop"
    /\ yielded = Idx
    /\ pc' = "shutdown"
    /\ UNCHANGED <<worker_thread, worker, tasks, is_running, futures, yielded, cur,
                   completed, queue, events, cancelled, unstartedAtCancel, in_on_finished>>

\* lines 95-97: the updates dictionary (an absent value: the key is absent)
Updates(r) == [price |-> r.price, image_url |-> r.img_url]

\* mutant: a result counts only with both a price and an image URL
HasUpdates_Both(r) == r.price # Absent /\ r.img_url # None

\* mutant: a result without a price counts as no data
HasUpdates_PriceOnly(r) == r.price # Absent

\* line 99: if updates
HasUpdates(r) == r.price # Absent \/ r.img_url # None

\* lines 89-111: the terminal signal for future i, whose result() gave r.
\* The field task is history: the future the signal belongs to.
Terminal(i, r) ==
    LET info == tasks[i]
    IN  IF r.exc # None
        THEN [type |-> "error", task |-> i, name |-> item_name(info), msg |-> r.exc]
        ELSE IF HasUpdates(r)
        THEN [type |-> "item_scraped", task |-> i, id |-> info.id,
              category |-> info.category, updates |-> Updates(r)]
        ELSE [type |-> "error", task |-> i, name |-> item_name(info),
              msg |-> "Parser returned no data"]

\* mutant: an exception of result() leaves the loop
AfterBody_Raise(r) == IF r.exc # None THEN "shutdown" ELSE "loop"

\* lines 92-114: try, except Exception, finally: whatever result() gave or
\* raised, the iteration ends normally and the loop goes on
AfterBody(r) == "loop"

\* mutant: progress is counted and emitted in the try block, not in finally
Body_NoFinally(r) ==
    /\ pc = "body"
    /\ IF r.exc # None
       THEN /\ completed' = completed
            /\ queue' = Append(queue, Terminal(cur, r))
       ELSE /\ completed' = completed + 1
            /\ queue' = queue \o << Terminal(cur, r),
                                    [type |-> "progress_updated", n |-> completed + 1] >>
    /\ pc' = AfterBody(r)
    /\ cur' = 0
    /\ UNCHANGED <<worker_thread, worker, tasks, is_running, futures, yielded,
                   events, cancelled, unstartedAtCancel, in_on_finished>>

\* lines 89-114: the loop body, with its finally clause
Body(r) ==
    /\ pc = "body"
    /\ completed' = completed + 1
    /\ queue' = queue \o << Terminal(cur, r),
                            [type |-> "progress_updated", n |-> completed + 1] >>
    /\ pc' = AfterBody(r)
    /\ cur' = 0
    /\ UNCHANGED <<worker_thread, worker, tasks, is_running, futures, yielded,
                   events, cancelled, unstartedAtCancel, in_on_finished>>

\* mutant: the executor is shut down without waiting, shutdown(wait=False)
Shutdown_NoWait ==
    /\ pc = "shutdown"
    /\ queue' = Append(queue, [type |-> "finished"])
    /\ pc' = "returned"
    /\ UNCHANGED <<worker_thread, worker, tasks, is_running, futures, yielded, cur,
                   completed, events, cancelled, unstartedAtCancel, in_on_finished>>

\* mutant: a run that broke out of its loop returns without emitting finished
Shutdown_SilentOnCancel ==
    /\ pc = "shutdown"
    /\ Done = Idx
    /\ queue' = IF is_running THEN Append(queue, [type |-> "finished"]) ELSE queue
    /\ pc' = "returned"
    /\ UNCHANGED <<worker_thread, worker, tasks, is_running, futures, yielded, cur,
                   completed, events, cancelled, unstartedAtCancel, in_on_finished>>

\* lines 77, 115-117: leaving the with block is shutdown(wait=True), which
\* returns once every submitted work item has run; then finished is emitted
Shutdown ==
    /\ pc = "shutdown"
    /\ Done = Idx
    /\ queue' = Append(queue, [type |-> "finished"])
    /\ pc' = "returned"
    /\ UNCHANGED <<worker_thread, worker, tasks, is_running, futures, yielded, cur,
                   completed, events, cancelled, unstartedAtCancel, in_on_finished>>

(***************************************************************************)
(* The ledger: DataManager.update_item_history and reset_item_history for  *)
(* one item.  SessionLocal is made with autoflush=False, so what a call    *)
(* adds or changes reaches the tables only at its commit: the queries it   *)
(* runs before see the rows as they were when the call began.              *)
(***************************************************************************)
PriceValues == {0, 100, 110}
Dates == 1..MaxDate

Row(d, p) == [date |-> d, price |-> p]

Op(o, d, p) == [op |-> o, date |-> d, price |-> p]

\* lines 474-479: order_by(date.desc()).limit(1); 0 when the item has no row
LastEntries(rows) ==
    IF rows = << >> THEN {0}
    ELSE { i \in DOMAIN rows : \A j \in DOMAIN rows : rows[j].date <= rows[i].date }

\* lines 499-504: the ids of the MAX_HISTORY_ENTRIES rows of latest date.
\* SQL leaves the order of equal dates open: every such choice.
TopRows(rows) ==
    { K \in SUBSET DOMAIN rows :
        /\ Cardinality(K) = MAX_HISTORY_ENTRIES
        /\ \A k \in K : \A j \in DOMAIN rows \ K : rows[j].date <= rows[k].date }

\* lines 494-509: the count and the delete, both run on the rows in the tables
Pruned(rows) ==
    IF Len(rows) > MAX_HISTORY_ENTRIES THEN TopRows(rows) ELSE {DOMAIN rows}

\* the rows with indices in K, in their order
RECURSIVE Keep(_, _, _)
Keep(rows, K, i) ==
    IF i > Len(rows) THEN << >>
    ELSE (IF i \in K THEN <<rows[i]>> ELSE << >>) \o Keep(rows, K, i + 1)

\* mutant: a new row is inserted whether or not the last entry is of today
Flushed_AlwaysInsert(rows, l, K, d, new_price) ==
    Append(Keep(rows, K, 1), Row(d, new_price))

\* lines 487-491, as flushed by the commit of line 511: the UPDATE of the
\* last entry, or the INSERT of the new row
Flushed(rows, l, K, d, new_price) ==
    IF l # 0 /\ rows[l].date = d
    THEN Keep([rows EXCEPT ![l].price = new_price], K, 1)
    ELSE Append(Keep(rows, K, 1), Row(d, new_price))

\* the last MAX_HISTORY_ENTRIES elements of s
Latest(s) ==
    IF Len(s) <= MAX_HISTORY_ENTRIES THEN s
    ELSE SubSeq(s, Len(s) - MAX_HISTORY_ENTRIES + 1, Len(s))

\* DataManager.update_item_history(item_id, category, new_price)
update_item_history(new_price) ==
    \E l \in LastEntries(history) : \E K \in Pruned(history) :
        /\ IF current_price # new_price
           THEN previous_price' = current_price /\ current_price' = new_price
           ELSE UNCHANGED <<previous_price, current_price>>
        /\ history' = Flushed(history, l, K, today, new_price)
        /\ IF tracking /\ (calls = << >> \/ calls[Len(calls)].date < today)
           THEN calls' = Latest(Append(calls, Row(today, new_price))) /\ tracking' = TRUE
           ELSE calls' = << >> /\ tracking' = FALSE
        /\ last_op' = Some(Op("update", today, new_price))
        /\ UNCHANGED <<today, setbacks, session>>

\* mutant: the entry is seeded whatever the price
reset_item_history_AlwaysSeed ==
    /\ history' = <<Row(today, current_price)>>
    /\ previous_price' = 0
    /\ calls' = << >>
    /\ tracking' = (current_price <= 0)
    /\ last_op' = Some(Op("reset", today, current_price))
    /\ UNCHANGED <<current_price, today, setbacks, session>>

\* DataManager.reset_item_history(item_id, category)
reset_item_history ==
    /\ history' = IF current_price > 0 THEN <<Row(today, current_price)>> ELSE << >>
    /\ previous_price' = 0
    /\ calls' = << >>
    /\ tracking' = (current_price <= 0)
    /\ last_op' = Some(Op("reset", today, current_price))
    /\ UNCHANGED <<current_price, today, setbacks, session>>

(***************************************************************************)
(* The same two operations statement by statement.  Each runs in one       *)
(* session: the ORM changes stay in the session until commit() flushes     *)
(* them, the DELETE statements run in the session's transaction, and a     *)
(* reader in another session sees the committed rows only, which are       *)
(* current_price, previous_price and history.  An exception in any         *)
(* statement ends in rollback().                                           *)
(***************************************************************************)
Committed == <<current_price, previous_price, history>>

\* update_item_history lines 467-491: the item and the last entry are read,
\* the item's prices and the entry (or the new row) are changed in the session
BeginUpdate(new_price) ==
    /\ session = Absent
    /\ \E l \in LastEntries(history) :
         session' = Some([op |-> "update", step |-> "modified", pre |-> Committed,
                          date |-> today, new_price |-> new_price, l |-> l,
                          current_price |-> new_price,
                          previous_price |-> IF current_price # new_price
                                             THEN current_price ELSE previous_price,
                          K |-> DOMAIN history])
    /\ UNCHANGED <<current_price, previous_price, history, today, setbacks, calls,
                   tracking, last_op>>

\* update_item_history lines 494-509: the count, and the DELETE when it
\* exceeds MAX_HISTORY_ENTRIES, run in the transaction
PruneInSession ==
    /\ session # Absent
    /\ session[1].step = "modified"
    /\ \E K \in Pruned(history) :
         session' = Some([session[1] EXCEPT !.step = "executed", !.K = K])
    /\ UNCHANGED <<current_price, previous_price, history, today, setbacks, calls,
                   tracking, last_op>>

\* reset_item_history lines 519-528: the DELETE runs in the transaction, the
\* seed row and previous_price = 0 are changed in the session
BeginReset ==
    /\ session = Absent
    /\ session' = Some([op |-> "reset", step |-> "executed", pre |-> Committed,
                        date |-> today, new_price |-> current_price, l |-> 0,
                        current_price |-> current_price,
                        previous_price |-> 0,
                        K |-> {}])
    /\ UNCHANGED <<current_price, previous_price, history, today, setbacks, calls,
                   tracking, last_op>>

\* what commit() leaves in price_history
RowsAtCommit(s) ==
    IF s.op = "update"
    THEN Flushed(history, s.l, s.K, s.date, s.new_price)
    ELSE IF s.new_price > 0 THEN <<Row(s.date, s.new_price)>> ELSE << >>

\* mutant: the item's prices are committed on their own, before the history
CommitSession_PricesFirst ==
    /\ session # Absent
    /\ session[1].step = "executed"
    /\ current_price' = session[1].current_price
    /\ previous_price' = session[1].previous_price
    /\ IF current_price # session[1].current_price \/ previous_price # session[1].previous_price
       THEN history' = history /\ session' = session
       ELSE history' = RowsAtCommit(session[1]) /\ session' = Absent
    /\ last_op' = Some(Op(session[1].op, session[1].date, session[1].new_price))
    /\ calls' = << >>
    /\ tracking' = FALSE
    /\ UNCHANGED <<today, setbacks>>

\* session.commit(), lines 511 and 529: the flush and the commit
CommitSession ==
    /\ session # Absent
    /\ session[1].step = "executed"
    /\ current_price' = session[1].current_price
    /\ previous_price' = session[1].previous_price
    /\ history' = RowsAtCommit(session[1])
    /\ session' = Absent
    /\ last_op' = Some(Op(session[1].op, session[1].date, session[1].new_price))
    /\ calls' = << >>
    /\ tracking' = FALSE
    /\ UNCHANGED <<today, setbacks>>

\* an exception in a statement or in the commit: lines 512-514 and 530-532,
\* session.rollback()
RollbackSession ==
    /\ session # Absent
    /\ session' = Absent
    /\ UNCHANGED <<current_price, previous_price, history, today, setbacks, calls,
                   tracking, last_op>>

\* The system clock: midnight passes
NextDay ==
    /\ today < MaxDate
    /\ today' = today + 1
    /\ UNCHANGED <<current_price, previous_price, history, setbacks, calls, tracking,
                   last_op, session>>

\* The system clock is set back (a corrected clock, a change of time zone)
ClockSetBack(d) ==
    /\ setbacks < MaxSetbacks
    /\ d < today
    /\ today' = d
    /\ setbacks' = setbacks + 1
    /\ UNCHANGED <<current_price, previous_price, history, calls, tracking, last_op,
                   session>>

\* DataManager.get_item_history: the rows ordered by date
RECURSIVE InsertByDate(_, _)
InsertByDate(r, s) ==
    IF s = << >> THEN <<r>>
    ELSE IF r.date < Head(s).date THEN <<r>> \o s
    ELSE <<Head(s)>> \o InsertByDate(r, Tail(s))

RECURSIVE SortByDate(_)
SortByDate(rows) ==
    IF rows = << >> THEN << >>
    ELSE InsertByDate(rows[Len(rows)], SortByDate(SubSeq(rows, 1, Len(rows) - 1)))

get_item_history == SortByDate(history)

\* DataManager.add_item_to_profile, lines 330-355: the item as created, with
\* a first history row when it has a price
InitLedg ==
    /\ today \in Dates
    /\ current_price \in PriceValues
    /\ previous_price = 0
    /\ history = IF current_price > 0 THEN <<Row(today, current_price)>> ELSE << >>
    /\ setbacks = 0
    /\ calls = << >>
    /\ tracking = (current_price <= 0)
    /\ last_op = Absent
    /\ session = Absent

\* the ledger at rest, for the specifications that do not use it
LedgIdle ==
    /\ today = 1
    /\ current_price = 0
    /\ previous_price = 0
    /\ history = << >>
    /\ setbacks = 0
    /\ calls = << >>
    /\ tracking = TRUE
    /\ last_op = Absent
    /\ session = Absent

(***************************************************************************)
(* The refresh pipeline of one item: scrape_tokopedia reads the price and  *)
(* the image URL off a product page (src/core/scraper.py), ScrapeWorker    *)
(* reports them with item_scraped, PCPlanner._on_item_scraped hands the    *)
(* price to update_item_history (src/ui/main_window.py).  A text is a      *)
(* sequence of characters; the empty text also stands for a missing value, *)
(* which clean_price treats alike.                                         *)
(***************************************************************************)
PriceTexts == { << >>,
                <<"R", "p">>,
                <<"R", "p", "1", "0", "0">>,
                <<"1", ".", "1", "0">> }

IsDigit(c) == c \in {"0", "1"}

DigitValue(c) == IF c = "1" THEN 1 ELSE 0

\* "".join(re.findall(r'\d+', text))
RECURSIVE DigitsOf(_)
DigitsOf(t) ==
    IF t = << >> THEN << >>
    ELSE (IF IsDigit(Head(t)) THEN <<Head(t)>> ELSE << >>) \o DigitsOf(Tail(t))

\* int(digits)
RECURSIVE ToInt(_)
ToInt(ds) ==
    IF ds = << >> THEN 0
    ELSE 10 * ToInt(SubSeq(ds, 1, Len(ds) - 1)) + DigitValue(ds[Len(ds)])

\* clean_price(price_text)
clean_price(t) ==
    IF t = << >> THEN 0
    ELSE IF DigitsOf(t) = << >> THEN 0
    ELSE ToInt(DigitsOf(t))

OptionalTexts == {Absent} \cup { Some(t) : t \in PriceTexts }

\* A product page as scrape_tokopedia meets it: the status of the response
\* the call ends with; the JSON-LD script block ("none": no block, or no
\* Product in it; "malformed": decoding it, or reading the decoded data,
\* raises; "product": a Product was decoded); the price value of the Product's
\* offers (Absent: no offers in it) and its first image; the text of the HTML
\* price element (Absent: no such element); the src of the main image element
\* and of the image in the secondary container.
Pages == [status        : {"ok", "not_found"},
          jsonld        : {"none", "malformed", "product"},
          offers        : OptionalTexts,
          image         : ImageUrls,
          html          : OptionalTexts,
          main_image    : {None, "img2"},
          gallery_image : {None, "img3"}]

NoData == [price |-> Absent, img_url |-> None]

\* Method 1, lines 66-97: what the JSON-LD block gives.  An exception raised
\* while decoding or reading it is caught and logged, and leaves both unset.
Tier1(page) ==
    IF page.jsonld = "product"
    THEN [price   |-> IF page.offers # Absent
                      THEN Some(clean_price(page.offers[1]))
                      ELSE Absent,
          img_url |-> page.image]
    ELSE NoData

\* Method 2, lines 101-103: the HTML price element
Tier2Price(page) ==
    IF page.html # Absent THEN Some(clean_price(page.html[1])) ELSE Absent

\* Method 2, lines 107-121: the main image element, then the secondary one
Tier2Image(page) ==
    IF page.main_image # None THEN page.main_image ELSE page.gallery_image

\* the tier-2 value replaces whatever tier 1 gave
Extract_Tier2Wins(page) ==
    LET t1 == Tier1(page)
    IN  [price   |-> IF Tier2Price(page) # Absent THEN Tier2Price(page)
                     ELSE t1.price,
         img_url |-> IF Tier2Image(page) # None THEN Tier2Image(page)
                     ELSE t1.img_url]

\* lines 61-126: the pair the parsing of an ok response returns
Extract(page) ==
    LET t1 == Tier1(page)
    IN  [price   |-> IF t1.price = Absent THEN Tier2Price(page) ELSE t1.price,
         img_url |-> IF t1.img_url = None THEN Tier2Image(page)
                     ELSE t1.img_url]

\* scrape_tokopedia(url): the pair (price, image_url), by the response the
\* call ends with
scrape_tokopedia(page) ==
    IF page.status # "ok" THEN NoData ELSE Extract(page)

\* ScrapeWorker._task: what future.result() gives for that page
TaskResult(page) ==
    LET got == scrape_tokopedia(page)
    IN  [exc |-> None, price |-> got.price, img_url |-> got.img_url]

\* What future.result() gives by what went wrong with the item.  The link is
\* no marketplace URL (src/core/scraper.py lines 28-30):
InvalidUrlResults ==
    { [exc |-> None, price |-> NoData.price, img_url |-> NoData.img_url] }

\* the page request ended with a 404 (lines 47-48):
NotFoundResults ==
    { TaskResult(page) : page \in { p \in Pages : p.status = "not_found" } }

\* neither the JSON-LD block nor the HTML elements gave anything (line 123):
ExtractionFailureResults ==
    { TaskResult(page) :
        page \in { p \in Pages : /\ p.status = "ok"
                                 /\ Tier1(p) = NoData
                                 /\ Tier2Price(p) = Absent
                                 /\ Tier2Image(p) = None } }

\* the page gave an image URL and _get_image_bytes returned None for it
\* (src/services/workers.py lines 52-54, 60-61): the triple's first two
ImageFailureResults ==
    { r \in TaskResults : r.exc = None /\ r.img_url # None }

\* DataManager._sanitize_str (src/core/data_manager.py lines 73-77); the
\* URLs of the model carry no blanks for strip() to remove
sanitize_str(value) == IF value = None THEN "" ELSE value

\* mutant: the image URL is assigned whether or not the signal carries one
on_item_scraped_AlwaysImage(data) ==
    /\ IF data.price # Absent
       THEN update_item_history(data.price[1])
       ELSE UNCHANGED ledg
    /\ image_url' = sanitize_str(data.image_url)

\* PCPlanner._on_item_scraped(iid, cat, data, img_bytes), lines 530-542: the
\* price, if data has one, goes to update_item_history; the image URL, if
\* data has one, goes to update_item_in_profile, which assigns
\* Item.image_url and neither a price nor the history
on_item_scraped(data) ==
    /\ IF data.price # Absent
       THEN update_item_history(data.price[1])
       ELSE UNCHANGED ledg
    /\ image_url' = IF data.image_url # None
                    THEN sanitize_str(data.image_url)
                    ELSE image_url

\* what run() does with the result r of a task and the listener with the
\* signal: item_scraped reaches _on_item_scraped, error reaches
\* _on_scrape_error only, which keeps a message
Handle(r) ==
    IF HasUpdates(r)
    THEN on_item_scraped(Updates(r))
    ELSE UNCHANGED <<ledg, image_url>>

\* One refresh of the item from a page: the task's result, the signal run()
\* emits for it, the handler of the signal
Refresh(page) == Handle(TaskResult(page))

\* the results the pages give their tasks
PageResults == { TaskResult(page) : page \in Pages }

(***************************************************************************)
(* One call of scrape_tokopedia, followed request by request               *)
(* (src/core/scraper.py lines 23-131).  A URL is the sequence of its       *)
(* parts; `"tokopedia.com" in url` is the test whether that part occurs    *)
(* anywhere in it.                                                         *)
(***************************************************************************)
Urls == { << >>,
          <<"https://", "tokopedia.com", "/p">>,
          <<"https://", "www.", "tokopedia.com", "/p">>,
          <<"https://", "example.com", "/p">>,
          <<"https://", "example.com", "/?ref=", "tokopedia.com">>,
          <<"https://", "tokopedia.com", ".example.com", "/p">> }

\* "tokopedia.com" in url
Contains(u, part) == \E k \in DOMAIN u : u[k] = part

\* line 28: not url or "tokopedia.com" not in url
InvalidUrl(u) == u = << >> \/ ~Contains(u, "tokopedia.com")

\* line 35
max_retries == 3

\* How one page request ends: requester.get returns a Response that
\* raise_for_status accepts ("ok") or rejects with an HTTPError of status
\* 404, 403 or 5xx, or requester.get raises a Timeout or a ConnectionError.
HttpErrors == {"not_found", "forbidden", "server_error"}
RequestErrors == {"timeout", "connection_error"}
AttemptOutcomes == {"ok"} \cup HttpErrors \cup RequestErrors

\* mutant: any Response is true
Truthy_AnyResponse(resp) == resp # None

\* bool(response), line 58: None is false, and a Response is as true as its
\* attribute ok
Truthy(resp) == resp = "ok"

InitScr ==
    /\ url = << >>
    /\ scrape_pc = "idle"
    /\ attempt = 0
    /\ response = None
    /\ outcomes = << >>
    /\ sleeps = 0
    /\ fetched = Absent
    /\ result = Absent

\* lines 23-37: the call, to the head of the retry loop
ScrapeCall(u) ==
    /\ scrape_pc \in {"idle", "returned"}
    /\ url' = u
    /\ attempt' = 0
    /\ response' = None
    /\ outcomes' = << >>
    /\ sleeps' = 0
    /\ fetched' = Absent
    /\ IF InvalidUrl(u)
       THEN scrape_pc' = "returned" /\ result' = Some(NoData)
       ELSE scrape_pc' = "loop" /\ result' = Absent

\* mutant: a 404 is retried like any other HTTP error
AfterHttpError_Retry404(o) == "retry"

\* lines 44-49: what follows an HTTPError of that status
AfterHttpError(o) == IF o = "not_found" THEN "return" ELSE "retry"

\* lines 50-56: what follows a RequestException in attempt a
AfterRequestError(a) == IF a < max_retries - 1 THEN "retry" ELSE "return"

\* lines 49 and 52-53: whether time.sleep(retry_delay) is called after a
\* request of attempt a that ended as o.  After an HTTPError other than a 404
\* the call is unconditional; after a RequestException it is made in every
\* attempt but the last.
SleepsAfter(o, a) ==
    IF o \in HttpErrors THEN AfterHttpError(o) = "retry"
    ELSE IF o \in RequestErrors THEN AfterRequestError(a) = "retry"
    ELSE FALSE

\* lines 39-56: one turn of the retry loop, whose request ends as o.  The
\* loop leaves for line 58 at the break and when range(max_retries) is
\* exhausted.
Attempt(o) ==
    /\ scrape_pc = "loop"
    /\ attempt < max_retries
    /\ outcomes' = Append(outcomes, o)
    /\ sleeps' = IF SleepsAfter(o, attempt) THEN sleeps + 1 ELSE sleeps
    /\ response' = IF o \in RequestErrors THEN response ELSE o
    /\ LET after == IF o = "ok" THEN "break"
                    ELSE IF o \in HttpErrors THEN AfterHttpError(o)
                    ELSE AfterRequestError(attempt)
       IN  /\ attempt' = IF after = "retry" THEN attempt + 1 ELSE attempt
           /\ scrape_pc' = IF after = "return" THEN "returned"
                           ELSE IF after = "break" \/ attempt + 1 = max_retries
                           THEN "check"
                           ELSE "loop"
           /\ result' = IF after = "return" THEN Some(NoData) ELSE Absent
    /\ UNCHANGED <<url, fetched>>

\* lines 58-59: if not response
CheckResponse ==
    /\ scrape_pc = "check"
    /\ IF Truthy(response)
       THEN scrape_pc' = "parse" /\ result' = Absent
       ELSE scrape_pc' = "returned" /\ result' = Some(NoData)
    /\ UNCHANGED <<url, attempt, response, outcomes, sleeps, fetched>>

\* lines 61-131: the parsing of the page the response carries
Parse(page) ==
    /\ scrape_pc = "parse"
    /\ page.status = "ok"
    /\ fetched' = Some(page)
    /\ result' = Some(Extract(page))
    /\ scrape_pc' = "returned"
    /\ UNCHANGED <<url, attempt, response, outcomes, sleeps>>

(***************************************************************************)
(* The image cache: ScrapeWorker._get_image_bytes (src/services/workers.py *)
(* lines 29-54), called by the pool's threads, each call followed          *)
(* statement by statement.  The calls are all for one image URL, hence for *)
(* one cache_path; the image is a sequence of blocks, which a write puts   *)
(* into the file one after the other.                                      *)
(***************************************************************************)
Threads == 1..MAX_WORKERS

\* resp.content
Content == <<"b1", "b2">>

\* the return value None, among the byte strings
NoImage == <<None>>

InitImg ==
    /\ cache_file = Absent
    /\ scraped = [t \in Threads |-> NoData]
    /\ fetch_pc = [t \in Threads |-> "idle"]
    /\ written = [t \in Threads |-> 0]
    /\ img_bytes = [t \in Threads |-> Absent]
    /\ stored = FALSE
    /\ after_store = [t \in Threads |-> FALSE]

\* the call of thread t returns v; its locals are gone
Return(t, v) ==
    /\ fetch_pc' = [fetch_pc EXCEPT ![t] = "idle"]
    /\ img_bytes' = [img_bytes EXCEPT ![t] = Some(v)]
    /\ written' = [written EXCEPT ![t] = 0]
    /\ after_store' = [after_store EXCEPT ![t] = FALSE]

\* an exception leaves the call of thread t
Raise(t) == Return(t, <<"raised">>)

\* mutant: an exception raised in lines 46-50 leaves the call
Caught_Raise(t) == Raise(t)

\* lines 52-54: an exception raised in lines 46-50 is logged, and None
\* returned
Caught(t) == Return(t, NoImage)

\* the call of thread t goes on to the statement at l
Goto(t, l) ==
    /\ fetch_pc' = [fetch_pc EXCEPT ![t] = l]
    /\ UNCHANGED <<img_bytes, written, after_store>>

\* lines 33-37: the call, with the test of the URL and of the cancel flag
GetImageBytes(t, img_url) ==
    /\ fetch_pc[t] = "idle"
    /\ IF img_url = None \/ ~is_running
       THEN Return(t, NoImage)
       ELSE /\ fetch_pc' = [fetch_pc EXCEPT ![t] = "exists"]
            /\ img_bytes' = [img_bytes EXCEPT ![t] = Absent]
            /\ after_store' = [after_store EXCEPT ![t] = stored]
            /\ written' = written
    /\ UNCHANGED <<cache_file, stored>>

\* ScrapeWorker._task, lines 59-60: scrape_tokopedia has returned the pair r,
\* and _get_image_bytes is called with its image URL
TaskCall(t, r) ==
    /\ scraped' = [scraped EXCEPT ![t] = r]
    /\ GetImageBytes(t, r.img_url)

\* lines 61-64: what future.result() gives once _get_image_bytes has
\* returned, the triple, or has raised, the exception
TaskReturn(t) ==
    IF img_bytes[t] = Some(<<"raised">>)
    THEN [exc |-> "boom", price |-> Absent, img_url |-> None,
          img_bytes |-> NoImage]
    ELSE [exc       |-> None,
          price     |-> scraped[t].price,
          img_url   |-> scraped[t].img_url,
          img_bytes |-> img_bytes[t][1]]

\* line 38: os.path.exists(cache_path)
Exists(t) ==
    /\ fetch_pc[t] = "exists"
    /\ Goto(t, IF cache_file # Absent THEN "read" ELSE "get")
    /\ UNCHANGED <<cache_file, scraped, stored>>

\* lines 39-43: the file is opened and read, and whatever it holds is
\* returned; an IOError goes on to the GET
Read(t, ok) ==
    /\ fetch_pc[t] = "read"
    /\ IF ok /\ cache_file # Absent
       THEN Return(t, cache_file[1])
       ELSE Goto(t, "get")
    /\ UNCHANGED <<cache_file, scraped, stored>>

\* lines 46-48: the GET and raise_for_status; a failure is caught at line 52
Get(t, ok) ==
    /\ fetch_pc[t] = "get"
    /\ IF ok THEN Goto(t, "open") ELSE Caught(t)
    /\ UNCHANGED <<cache_file, scraped, stored>>

\* line 49: open(cache_path, 'wb') empties the file; a failure is caught
Open(t, ok) ==
    /\ fetch_pc[t] = "open"
    /\ IF ok
       THEN cache_file' = Some(<< >>) /\ Goto(t, "write")
       ELSE cache_file' = cache_file /\ Caught(t)
    /\ UNCHANGED <<scraped, stored>>

\* the file after block k of Content is written at its place; the blocks a
\* write skips are zeros
PutBlock(bytes, k) ==
    [j \in 1..(IF k > Len(bytes) THEN k ELSE Len(bytes)) |->
        IF j = k THEN Content[k]
        ELSE IF j <= Len(bytes) THEN bytes[j]
        ELSE "00"]

\* line 50: f.write(data) puts the next block into the file, or fails, which
\* is caught at line 52 with the file left as it is
Write(t, ok) ==
    /\ fetch_pc[t] = "write"
    /\ written[t] < Len(Content)
    /\ IF ok
       THEN /\ cache_file' = Some(PutBlock(cache_file[1], written[t] + 1))
            /\ written' = [written EXCEPT ![t] = written[t] + 1]
            /\ UNCHANGED <<fetch_pc, img_bytes, after_store>>
       ELSE /\ cache_file' = cache_file
            /\ Caught(t)
    /\ UNCHANGED <<scraped, stored>>

\* lines 50-51: the file is closed and data returned
Close(t) ==
    /\ fetch_pc[t] = "write"
    /\ written[t] = Len(Content)
    /\ Return(t, Content)
    /\ stored' = TRUE
    /\ UNCHANGED <<cache_file, scraped>>

\* ScrapeWorker.stop, lines 119-120
Stop ==
    /\ is_running
    /\ is_running' = FALSE
    /\ UNCHANGED <<worker_thread, worker, tasks, pc, futures, yielded, cur,
                   completed, queue, events, cancelled, unstartedAtCancel,
                   in_on_finished>>

(***************************************************************************)
(* The tables items and price_history with more than one item              *)
(* (src/core/models.py, src/core/data_manager.py): what the calls of the   *)
(* DataManager for one item id do to the rows of the others.               *)
(***************************************************************************)
ItemIds == {"a", "b"}
ItemPrices == {0, 100}

\* the days of this part of the model: enough for a history longer than the
\* retention count
ItemDays == MAX_HISTORY_ENTRIES + 1

HistRow(id, d, p) == [item_id |-> id, date |-> d, price |-> p]

InitDb ==
    /\ items = [id \in ItemIds |-> Absent]
    /\ price_history = << >>
    /\ missing_call = FALSE

\* mutant: the statements on price_history have no where clause
Mine_AllRows(item_id) == DOMAIN price_history

\* .where(PriceHistory.item_id == item_id): the rows of the item
Mine(item_id) == { k \in DOMAIN price_history : price_history[k].item_id = item_id }

\* lines 474-479: order_by(date.desc()).limit(1) among the item's rows
LastEntryOf(item_id) ==
    LET mine == Mine(item_id)
    IN  IF mine = {} THEN {0}
        ELSE { k \in mine : \A j \in mine : price_history[j].date <= price_history[k].date }

\* lines 494-509: the count of the item's rows, and the rows the DELETE
\* leaves: the MAX_HISTORY_ENTRIES of latest date among the item's rows
PrunedOf(item_id) ==
    LET mine == Mine(item_id)
    IN  IF Cardinality(mine) > MAX_HISTORY_ENTRIES
        THEN { K \in SUBSET mine :
                 /\ Cardinality(K) = MAX_HISTORY_ENTRIES
                 /\ \A k \in K : \A j \in mine \ K :
                      price_history[j].date <= price_history[k].date }
        ELSE {mine}

\* DataManager.add_item_to_profile, lines 330-355, with the id its callers
\* give it: a fresh uuid4 (src/ui/main_window.py line 391)
AddItemToProfile(item_id, price) ==
    /\ items[item_id] = Absent
    /\ Mine(item_id) = {}
    /\ items' = [items EXCEPT ![item_id] =
                   Some([current_price |-> price, previous_price |-> 0])]
    /\ price_history' = IF price > 0
                        THEN Append(price_history, HistRow(item_id, today, price))
                        ELSE price_history
    /\ missing_call' = FALSE

\* DataManager.delete_items_from_profile, lines 416-435: a DELETE statement
\* on items, which the relationship's cascade does not follow.  Whether
\* SQLite enforces the foreign key of price_history depends on how the
\* library was built (src/core/database.py sets no PRAGMA foreign_keys):
\* unenforced, the item's history rows stay behind; enforced, the DELETE of
\* an item with history rows raises and is rolled back.
DeleteItemsFromProfile(item_id, enforced) ==
    /\ items[item_id] # Absent
    /\ items' = IF enforced /\ Mine(item_id) # {} THEN items
                ELSE [items EXCEPT ![item_id] = Absent]
    /\ price_history' = price_history
    /\ missing_call' = FALSE

\* DataManager.update_item_history(item_id, category, new_price), lines
\* 465-514, on the tables
UpdateItemHistory(item_id, new_price) ==
    IF items[item_id] = Absent
    THEN /\ missing_call' = TRUE
         /\ UNCHANGED <<items, price_history>>
    ELSE LET item == items[item_id][1]
             mine == Mine(item_id)
         IN  \E l \in LastEntryOf(item_id) : \E K \in PrunedOf(item_id) :
               LET kept == (DOMAIN price_history \ mine) \cup K
               IN  /\ items' = [items EXCEPT ![item_id] =
                                  IF item.current_price # new_price
                                  THEN Some([current_price |-> new_price,
                                             previous_price |-> item.current_price])
                                  ELSE Some(item)]
                   /\ price_history' =
                        IF l # 0 /\ price_history[l].date = today
                        THEN Keep([price_history EXCEPT ![l].price = new_price], kept, 1)
                        ELSE Append(Keep(price_history, kept, 1),
                                    HistRow(item_id, today, new_price))
                   /\ missing_call' = FALSE

\* DataManager.reset_item_history(item_id, category), lines 516-532, on the
\* tables.  For an id with no row in items scalar_one() raises, and the
\* DELETE is rolled back.
ResetItemHistory(item_id) ==
    IF items[item_id] = Absent
    THEN /\ missing_call' = FALSE
         /\ UNCHANGED <<items, price_history>>
    ELSE LET item == items[item_id][1]
             others == DOMAIN price_history \ Mine(item_id)
         IN  /\ items' = [items EXCEPT ![item_id] =
                            Some([item EXCEPT !.previous_price = 0])]
             /\ price_history' =
                  Keep(price_history, others, 1) \o
                    (IF item.current_price > 0
                     THEN <<HistRow(item_id, today, item.current_price)>>
                     ELSE << >>)
             /\ missing_call' = FALSE

InitHist ==
    /\ after_cancel = 0
    /\ stray_cancel = "none"

(***************************************************************************)
(* The specifications                                                      *)
(***************************************************************************)
Init == InitOrch /\ LedgIdle /\ InitScr /\ InitImg /\ InitHist /\ InitDb /\ image_url = ""

Next ==
    \/ Start /\ UNCHANGED exceptOrch
    \/ Cancel /\ UNCHANGED exceptOrch
    \/ Deliver /\ UNCHANGED exceptOrch
    \/ OnFinishedReturn /\ UNCHANGED exceptOrch
    \/ RunBegin /\ UNCHANGED exceptOrch
    \/ \E i \in Idx : TaskStart(i) /\ UNCHANGED exceptOrch
    \/ \E i \in Idx : TaskFinish(i) /\ UNCHANGED exceptOrch
    \/ \E i \in Idx : LoopNext(i) /\ UNCHANGED exceptOrch
    \/ LoopExhausted /\ UNCHANGED exceptOrch
    \/ \E r \in TaskResults : Body(r) /\ UNCHANGED exceptOrch
    \/ Shutdown /\ UNCHANGED exceptOrch

Spec == Init /\ [][Next]_vars

\* One result for each branch of the loop body: a pair with data, a pair
\* without, an exception.  What run() does next does not depend on the data.
BranchResults == { r \in TaskResults : r.img_url = None }

NextBranches ==
    \/ Start /\ UNCHANGED exceptOrch
    \/ Cancel /\ UNCHANGED exceptOrch
    \/ Deliver /\ UNCHANGED exceptOrch
    \/ OnFinishedReturn /\ UNCHANGED exceptOrch
    \/ RunBegin /\ UNCHANGED exceptOrch
    \/ \E i \in Idx : TaskStart(i) /\ UNCHANGED exceptOrch
    \/ \E i \in Idx : TaskFinish(i) /\ UNCHANGED exceptOrch
    \/ \E i \in Idx : LoopNext(i) /\ UNCHANGED exceptOrch
    \/ LoopExhausted /\ UNCHANGED exceptOrch
    \/ \E r \in BranchResults : Body(r) /\ UNCHANGED exceptOrch
    \/ Shutdown /\ UNCHANGED exceptOrch

\* The scheduling the claims about termination assume: the worker's thread,
\* the pool's threads and the manager's event loop each keep taking the step
\* they can take, and every task returns or raises (every request of
\* scrape_tokopedia and _get_image_bytes has a timeout, and the retry loop of
\* src/core/scraper.py lines 39-56 is a bounded for loop).  Nothing obliges a
\* caller to start or to cancel.
Fairness ==
    /\ WF_orch(RunBegin)
    /\ WF_orch(\E i \in Idx : TaskStart(i))
    /\ WF_orch(\E i \in Idx : TaskFinish(i))
    /\ WF_orch(\E i \in Idx : LoopNext(i))
    /\ WF_orch(LoopExhausted)
    /\ WF_orch(\E r \in BranchResults : Body(r))
    /\ WF_orch(Shutdown)
    /\ WF_orch(Deliver)
    /\ WF_orch(OnFinishedReturn)

SpecFair == Init /\ [][NextBranches]_vars /\ Fairness

\* no batch is running: the manager is idle, or the batch has ended and its
\* finished listener runs (lines 163-168)
NoBatchRunning == ~IsRunning \/ in_on_finished

\* The orchestrator with the history of its caller's cancel requests: the
\* terminal signals run() emits after a cancel request reached the batch are
\* counted, and a cancel request that meets no running batch (no worker, or
\* the finished listener of a batch that has ended) is remembered.
NextCancel ==
    \/ /\ Start
       /\ after_cancel' = IF IsRunning THEN after_cancel ELSE 0
       /\ stray_cancel' = IF IsRunning THEN stray_cancel
                          ELSE IF stray_cancel = "requested" THEN "before_batch"
                          ELSE "none"
       /\ UNCHANGED exceptOrchHist
    \/ /\ Cancel
       /\ stray_cancel' = IF NoBatchRunning THEN "requested" ELSE stray_cancel
       /\ UNCHANGED <<after_cancel, exceptOrchHist>>
    \/ Deliver /\ UNCHANGED exceptOrch
    \/ OnFinishedReturn /\ UNCHANGED exceptOrch
    \/ RunBegin /\ UNCHANGED exceptOrch
    \/ \E i \in Idx : TaskStart(i) /\ UNCHANGED exceptOrch
    \/ \E i \in Idx : TaskFinish(i) /\ UNCHANGED exceptOrch
    \/ \E i \in Idx : LoopNext(i) /\ UNCHANGED exceptOrch
    \/ LoopExhausted /\ UNCHANGED exceptOrch
    \/ \E r \in BranchResults :
          /\ Body(r)
          /\ after_cancel' = IF cancelled THEN after_cancel + 1 ELSE after_cancel
          /\ UNCHANGED <<stray_cancel, exceptOrchHist>>
    \/ Shutdown /\ UNCHANGED exceptOrch

SpecCancel == Init /\ [][NextCancel]_vars

\* the DataManager's calls for two item ids, under a forward clock
NextItems ==
    \/ \E id \in ItemIds : \E p \in ItemPrices :
          AddItemToProfile(id, p) /\ UNCHANGED exceptDb
    \/ \E id \in ItemIds : \E enforced \in BOOLEAN :
          DeleteItemsFromProfile(id, enforced) /\ UNCHANGED exceptDb
    \/ \E id \in ItemIds : \E p \in ItemPrices :
          UpdateItemHistory(id, p) /\ UNCHANGED exceptDb
    \/ \E id \in ItemIds : ResetItemHistory(id) /\ UNCHANGED exceptDb
    \/ today < ItemDays /\ NextDay /\ UNCHANGED exceptLedg

SpecItems == Init /\ [][NextItems]_vars

InitLedger == InitOrch /\ InitLedg /\ InitScr /\ InitImg /\ InitHist /\ InitDb /\ image_url = ""

NextLedger ==
    \/ \E p \in PriceValues : update_item_history(p) /\ UNCHANGED exceptLedg
    \/ reset_item_history /\ UNCHANGED exceptLedg
    \/ NextDay /\ UNCHANGED exceptLedg
    \/ \E d \in Dates : ClockSetBack(d) /\ UNCHANGED exceptLedg

SpecLedger == InitLedger /\ [][NextLedger]_vars

\* the ledger under a clock that only moves forward
NextLedgerForward ==
    \/ \E p \in PriceValues : update_item_history(p) /\ UNCHANGED exceptLedg
    \/ reset_item_history /\ UNCHANGED exceptLedg
    \/ NextDay /\ UNCHANGED exceptLedg

SpecLedgerForward == InitLedger /\ [][NextLedgerForward]_vars

\* the ledger with its calls followed statement by statement
NextSession ==
    \/ \E p \in PriceValues : BeginUpdate(p) /\ UNCHANGED exceptLedg
    \/ PruneInSession /\ UNCHANGED exceptLedg
    \/ BeginReset /\ UNCHANGED exceptLedg
    \/ CommitSession /\ UNCHANGED exceptLedg
    \/ RollbackSession /\ UNCHANGED exceptLedg
    \/ NextDay /\ UNCHANGED exceptLedg

SpecSession == InitLedger /\ [][NextSession]_vars

NextPipeline ==
    \/ \E r \in PageResults : Handle(r) /\ UNCHANGED <<orch, scr, img, hist, db>>
    \/ NextDay /\ UNCHANGED exceptLedg

SpecPipeline == InitLedger /\ [][NextPipeline]_vars

\* one call of scrape_tokopedia after another
InitScrape == InitOrch /\ LedgIdle /\ InitScr /\ InitImg /\ InitHist /\ InitDb /\ image_url = ""

NextScrape ==
    \/ \E u \in Urls : ScrapeCall(u) /\ UNCHANGED exceptScr
    \/ \E o \in AttemptOutcomes : Attempt(o) /\ UNCHANGED exceptScr
    \/ CheckResponse /\ UNCHANGED exceptScr
    \/ \E page \in Pages : Parse(page) /\ UNCHANGED exceptScr

SpecScrape == InitScrape /\ [][NextScrape]_vars

\* the pairs scrape_tokopedia may return to _task
ScrapeResults == { [price |-> p, img_url |-> u] : p \in Prices, u \in ImageUrls }

\* the pool's threads running _task, and a cancel
InitCache == InitOrch /\ LedgIdle /\ InitScr /\ InitImg /\ InitHist /\ InitDb /\ image_url = ""

NextCache ==
    \/ \E t \in Threads : \E r \in ScrapeResults :
          TaskCall(t, r) /\ UNCHANGED exceptImg
    \/ \E t \in Threads : Exists(t) /\ UNCHANGED exceptImg
    \/ \E t \in Threads : \E ok \in BOOLEAN :
          Read(t, ok) /\ UNCHANGED exceptImg
    \/ \E t \in Threads : \E ok \in BOOLEAN :
          Get(t, ok) /\ UNCHANGED exceptImg
    \/ \E t \in Threads : \E ok \in BOOLEAN :
          Open(t, ok) /\ UNCHANGED exceptImg
    \/ \E t \in Threads : \E ok \in BOOLEAN :
          Write(t, ok) /\ UNCHANGED exceptImg
    \/ \E t \in Threads : Close(t) /\ UNCHANGED exceptImg
    \/ Stop /\ UNCHANGED exceptOrch

SpecCache == InitCache /\ [][NextCache]_vars

(***************************************************************************)
(* What a batch has emitted                                                *)
(***************************************************************************)
\* every signal the worker has emitted in this batch, in order: those the
\* manager has passed on, then those still queued
Emitted == events \o queue

IsTerminal(e) == e.type \in {"item_scraped", "error"}

TerminalIdx == { j \in DOMAIN Emitted : IsTerminal(Emitted[j]) }

TerminalsOf(i) == Cardinality({ j \in TerminalIdx : Emitted[j].task = i })

IsProgress(e) == e.type = "progress_updated"

ProgressSeq == SelectSeq(Emitted, IsProgress)

Last(s) == s[Len(s)]

\* run() has emitted finished
BatchEnded == pc = "returned" \/ FinishedDelivered

(***************************************************************************)
(* The claims                                                              *)
(***************************************************************************)

\* C1: once a cancel request has set the flag, no task of the batch that had
\* not yet begun executing ever begins executing.
C1_NoTaskStartsAfterCancel ==
    [][ \A i \in Idx :
          (~is_running /\ futures[i] = "pending")
          => (i \in DOMAIN futures' => futures'[i] # "running") ]_vars

\* C2: after every update_item_history call the item has at most
\* MAX_HISTORY_ENTRIES history entries.
C2_HistoryWithinRetention == Len(history) <= MAX_HISTORY_ENTRIES

\* C3: after n calls on n strictly increasing dates, from an empty history,
\* the stored history is the min(n, H) most recent (date, price) pairs, in date
\* order.
C3_LatestCallsRetained == tracking => get_item_history = calls

\* C4: the history never holds two entries of one date, whatever the calls
\* and whatever the current date is at each.
C4_OneEntryPerDate ==
    \A i, j \in DOMAIN history : history[i].date = history[j].date => i = j

\* C5: the progress events of a batch carry 1, 2, ..., k in that order, one
\* for each terminal event (item_scraped or error), and k is the number of
\* tasks when the batch ends without a cancel request.
C5_ProgressCounts ==
    LET E == Emitted
        P == SelectSeq(E, IsProgress)
    IN  /\ \A j \in DOMAIN P : P[j].n = j
        /\ \A j \in DOMAIN E :
             IsTerminal(E[j]) => j < Len(E) /\ IsProgress(E[j + 1])
        /\ \A j \in DOMAIN E :
             IsProgress(E[j]) => j > 1 /\ IsTerminal(E[j - 1])
        /\ (BatchEnded /\ ~cancelled) => Len(P) = Len(tasks)

C5_Witness ==
    /\ pc = "returned" /\ ~cancelled
    /\ Len(tasks) = MaxTasks
    /\ Len(ProgressSeq) = MaxTasks
    /\ \E j \in TerminalIdx : Emitted[j].type = "error"

\* C6: no task ever has more than one terminal event, and when a batch of N
\* tasks ends without a cancel request every task has exactly one, N in all,
\* in whatever order the tasks completed.
C6_OneTerminalPerTask ==
    LET E == Emitted
        T == { j \in DOMAIN E : IsTerminal(E[j]) }
        Of(i) == Cardinality({ j \in T : E[j].task = i })
    IN  /\ \A i \in DOMAIN tasks : Of(i) <= 1
        /\ (BatchEnded /\ ~cancelled) =>
             /\ \A i \in DOMAIN tasks : Of(i) = 1
             /\ Cardinality(T) = Len(tasks)

\* a batch larger than the pool has ended uncancelled, and its last task was
\* not the last to be reported
C6_Witness ==
    /\ FinishedDelivered /\ ~cancelled
    /\ Len(tasks) = MaxTasks /\ MaxTasks > MAX_WORKERS
    /\ \E j, k \in TerminalIdx : j < k /\ Emitted[j].task > Emitted[k].task

\* C7: for a result the loop consumes, exactly one terminal signal is
\* emitted: item_scraped with the task's own id and category if and only if
\* the result has a price or an image URL, error with the task's display name
\* if and only if it has neither.
C7_TerminalByResult ==
    [][ \A r \in TaskResults :
          (r.exc = None /\ Body(r)) =>
            LET e == queue'[Len(queue) + 1]
                data == r.price # Absent \/ r.img_url # None
                display == IF tasks[cur].name = None THEN "Unknown Item"
                           ELSE tasks[cur].name
            IN  /\ Len(queue') = Len(queue) + 2
                /\ ~IsTerminal(queue'[Len(queue) + 2])
                /\ data <=> e.type = "item_scraped"
                /\ ~data <=> e.type = "error"
                /\ e.type = "item_scraped" =>
                     /\ e.id = tasks[cur].id
                     /\ e.category = tasks[cur].category
                     /\ e.updates.price = r.price
                     /\ e.updates.image_url = r.img_url
                /\ e.type = "error" => e.name = display ]_vars

\* a result with an image URL and no price was reported by item_scraped, and
\* one with neither by error
C7_Witness ==
    /\ \E j \in TerminalIdx :
         /\ Emitted[j].type = "item_scraped"
         /\ Emitted[j].updates.price = Absent
    /\ \E j \in TerminalIdx :
         /\ Emitted[j].type = "error"
         /\ Emitted[j].msg = "Parser returned no data"
         /\ Emitted[j].name = "Unknown Item"

RaisedIdx == { j \in TerminalIdx : Emitted[j].type = "error" /\ Emitted[j].msg = "boom" }

\* C8: a task's exception gives exactly one error signal with the exception's
\* message for that task and one more progress, the loop goes on, and in a
\* batch that ends without a cancel request every task still has its terminal
\* event.
C8_ExceptionIsOneFailure ==
    /\ [][ \A r \in TaskResults :
             (r.exc # None /\ Body(r)) =>
               /\ Len(queue') = Len(queue) + 2
               /\ queue'[Len(queue) + 1].type = "error"
               /\ queue'[Len(queue) + 1].task = cur
               /\ queue'[Len(queue) + 1].msg = r.exc
               /\ queue'[Len(queue) + 2] = [type |-> "progress_updated", n |-> completed + 1]
               /\ pc' = "loop" ]_vars
    /\ [](\A j, k \in RaisedIdx : Emitted[j].task = Emitted[k].task => j = k)
    /\ []((BatchEnded /\ ~cancelled /\ RaisedIdx # {}) =>
             \A i \in DOMAIN tasks : TerminalsOf(i) = 1)

\* the first task reported raised, and the tasks after it were reported too
C8_Witness ==
    /\ pc = "returned" /\ ~cancelled
    /\ Len(tasks) = MaxTasks
    /\ \E j \in RaisedIdx :
         /\ \A k \in TerminalIdx : j <= k
         /\ \E k \in TerminalIdx : k > j /\ Emitted[k].type = "item_scraped"

\* C9: a start request made while a batch is running, draining after a cancel
\* request included, changes nothing: no second worker, no event, the running
\* batch's tasks and flag as they were.  The thread object and the worker
\* exist together.
C9_StartWhileRunningIsNoOp ==
    /\ [][ (worker_thread # None /\ Start) => UNCHANGED orch ]_vars
    /\ [](worker_thread # None <=> worker # None)

\* a batch is draining after a cancel request, with tasks still in the pool
C9_Witness ==
    /\ worker_thread # None
    /\ ~is_running
    /\ Pending # {} /\ Executing # {}
    /\ queue # << >>

\* C10: a batch a cancel request reached ends with finished(true), and no
\* task that had not begun executing at the cancel request has a terminal
\* event.
C10_CancelledBatch ==
    LET E == Emitted
    IN  /\ (cancelled /\ FinishedDelivered) => Last(events).was_cancelled
        /\ \A j \in DOMAIN E : IsTerminal(E[j]) => E[j].task \notin unstartedAtCancel

\* a batch was cancelled with a task still queued and after a first report,
\* and has ended
C10_Witness ==
    /\ FinishedDelivered
    /\ Last(events).was_cancelled
    /\ unstartedAtCancel # {}
    /\ TerminalIdx # {}

NumFinished ==
    LET E == Emitted
    IN  Cardinality({ j \in DOMAIN E : E[j].type = "finished" })

\* C11: every accepted start request leads to the finished event of its
\* batch being emitted to the listener, cancelled or not, and a batch never
\* has more than one finished event.
C11_StartLeadsToOneFinished ==
    /\ (pc = "spawned") ~> (FinishedDelivered /\ NumFinished = 1)
    /\ [](NumFinished <= 1)

\* a full batch that a cancel request reached while the pool was busy has
\* reported finished
C11_Witness ==
    /\ FinishedDelivered /\ NumFinished = 1
    /\ cancelled
    /\ Len(tasks) = MaxTasks
    /\ Cardinality(unstartedAtCancel) = MaxTasks - MAX_WORKERS

\* C12: once the finished event of a batch has been emitted, a start request
\* is accepted and starts a new batch, one made by a listener of that event
\* included.
C12_StartAcceptedAfterFinished ==
    FinishedDelivered => ENABLED <<Start>>_orch

LastPrices(rows) ==
    IF rows = << >> THEN {0} ELSE { rows[l].price : l \in LastEntries(rows) }

\* C14: after update_item_history(new_price), for every new_price,
\* previous_price is the price of the entry that was the most recent one
\* before the call (0 if there was none) and current_price is new_price.
C14_PreviousIsLastEntry ==
    [][ \A p \in PriceValues :
          update_item_history(p) =>
            /\ current_price' = p
            /\ previous_price' \in LastPrices(history) ]_vars

\* C15: after every update_item_history call that leaves two entries or
\* more, previous_price is the price of the second most recent entry.
C15_PreviousIsSecondToLast ==
    [][ \A p \in PriceValues :
          (update_item_history(p) /\ Len(history') >= 2) =>
            previous_price' = SortByDate(history')[Len(history') - 1].price ]_vars

\* C16: update_item_history called twice in a row with the same price on the
\* same date: the second call leaves current_price, previous_price and the
\* whole history as the first left them.
C16_SameDayRepeatIsNoOp ==
    [][ \A p \in PriceValues :
          (last_op = Some(Op("update", today, p)) /\ update_item_history(p)) =>
            UNCHANGED <<current_price, previous_price, history>> ]_vars

\* C17: an update_item_history call on the date of the call before it does
\* not change the length of the history, and leaves one entry of that date,
\* holding the second call's price.
C17_SameDayOverwrites ==
    [][ \A p \in PriceValues :
          (\E q \in PriceValues : last_op = Some(Op("update", today, q))
           /\ update_item_history(p)) =>
            /\ Len(history') = Len(history)
            /\ \E i \in DOMAIN history' :
                 /\ history'[i] = Row(today, p)
                 /\ \A j \in DOMAIN history' : history'[j].date = today => j = i ]_vars

\* C19: reset_item_history on an item of price p > 0 leaves the history
\* [(today, p)], on an item of price 0 the empty history; previous_price is 0
\* and current_price is what it was.
C19_ResetSeedsOneEntry ==
    \A d \in Dates : \A p \in PriceValues :
        last_op = Some(Op("reset", d, p)) =>
            /\ current_price = p
            /\ previous_price = 0
            /\ p > 0 => get_item_history = <<Row(d, p)>>
            /\ p = 0 => get_item_history = << >>

\* reset_item_history was the last operation on an item of positive price,
\* on a later day than the first, and left that day's entry
C19_Witness ==
    /\ last_op = Some(Op("reset", today, 110))
    /\ history = <<Row(today, 110)>>
    /\ today > 1

\* no price text of the page holds a digit
NoPriceOn(page) ==
    /\ page.offers # Absent => DigitsOf(page.offers[1]) = << >>
    /\ page.html # Absent => DigitsOf(page.html[1]) = << >>

\* C18: a refresh from a page on which no price can be discovered leaves
\* current_price, previous_price and the history as they were: no entry of
\* price 0 is created and current_price is not set to 0.
C18_NoPriceIsNoUpdate ==
    [][ \A page \in Pages :
          (NoPriceOn(page) /\ Refresh(page)) =>
            UNCHANGED <<current_price, previous_price, history>> ]_vars

\* every change a call makes, taken from the rows it found: the whole of it
WholeCall(s) ==
    IF s.op = "update"
    THEN /\ current_price' = s.new_price
         /\ previous_price' = IF current_price # s.new_price
                              THEN current_price ELSE previous_price
         /\ \E l \in LastEntries(history) : \E K \in Pruned(history) :
              history' = Flushed(history, l, K, s.date, s.new_price)
    ELSE /\ current_price' = current_price
         /\ previous_price' = 0
         /\ history' = IF current_price > 0
                       THEN <<Row(s.date, current_price)>> ELSE << >>

\* C20: update_item_history and reset_item_history are atomic: while a call
\* is in progress a reader sees the item as it was before the call, the
\* committed state changes only by the whole of a call at once, and a call
\* that fails leaves current_price, previous_price and the history as they
\* were before it.
C20_CallsAreAtomic ==
    /\ [](session # Absent => Committed = session[1].pre)
    /\ [][ Committed' # Committed =>
             (session # Absent /\ session' = Absent /\ WholeCall(session[1])) ]_vars
    /\ [][ RollbackSession => Committed' = session[1].pre ]_vars

\* an update is in progress that has changed the price and deleted a row in
\* its transaction, and none of it is committed
C20_Witness ==
    /\ session # Absent
    /\ session[1].op = "update"
    /\ session[1].step = "executed"
    /\ session[1].current_price # current_price
    /\ session[1].K # DOMAIN history
    /\ Len(history) > MAX_HISTORY_ENTRIES

(***************************************************************************)
(* Claims about one call of scrape_tokopedia                               *)
(***************************************************************************)
TransientErrors == {"timeout", "connection_error", "server_error"}

AllTransient == \A k \in DOMAIN outcomes : outcomes[k] \in TransientErrors

\* C21: a call of scrape_tokopedia issues at most 3 page requests, and a call
\* all of whose requests failed with a connection failure, a timeout or a 5xx
\* response, in any mix, parses nothing and returns (None, None).
C21_AtMostThreeRequests ==
    /\ Len(outcomes) <= 3
    /\ (scrape_pc \in {"check", "parse", "returned"} /\ outcomes # << >>
          /\ AllTransient)
         => /\ Len(outcomes) = 3
            /\ scrape_pc # "parse"
            /\ fetched = Absent
            /\ scrape_pc = "returned" => result = Some(NoData)

C21_Witness ==
    /\ scrape_pc = "returned"
    /\ outcomes = <<"timeout", "server_error", "server_error">>
    /\ result = Some(NoData)

\* C22: a 404 response ends the call at once with (None, None), no page
\* request following it, whereas after a connection timeout the call goes on
\* to the next request until 3 have been made.
C22_NotFoundIsTerminal ==
    /\ \A k \in DOMAIN outcomes :
         outcomes[k] = "not_found" =>
           /\ k = Len(outcomes)
           /\ scrape_pc = "returned"
           /\ result = Some(NoData)
    /\ (outcomes # << >> /\ outcomes[Len(outcomes)] = "timeout") =>
         IF Len(outcomes) < 3
         THEN scrape_pc = "loop"
         ELSE scrape_pc = "returned" /\ result = Some(NoData)

C22_Witness ==
    /\ scrape_pc = "returned"
    /\ outcomes = <<"timeout", "not_found">>
    /\ result = Some(NoData)

\* the parts of a URL that begin its path
PathParts == {"/p", "/?ref="}

\* the host of a URL: its parts after the scheme and before the path
HostOf(u) ==
    LET starts == { k \in DOMAIN u : u[k] \in PathParts }
        first  == IF starts = {} THEN Len(u) + 1
                  ELSE CHOOSE k \in starts : \A j \in starts : k <= j
    IN  SubSeq(u, 2, first - 1)

\* the URL is of the marketplace's domain or of a subdomain of it
BelongsToMarketplace(u) ==
    HostOf(u) # << >> /\ HostOf(u)[Len(HostOf(u))] = "tokopedia.com"

\* C23: for a URL that does not belong to the marketplace domain, the empty
\* URL included, the call issues no request and returns (None, None).
C23_ForeignUrlNoRequest ==
    (scrape_pc # "idle" /\ ~BelongsToMarketplace(url)) =>
        /\ outcomes = << >>
        /\ scrape_pc = "returned"
        /\ result = Some(NoData)

\* C28: for the price and for the image URL separately, the call returns the
\* value of the JSON-LD block where the block gave one, and the value of the
\* HTML elements exactly where it gave none, a block that fails to decode
\* included; such a block makes the call neither raise nor give up the page.
C28_Tier2OnlyWhereTier1GaveNone ==
    (scrape_pc = "returned" /\ fetched # Absent) =>
        LET page    == fetched[1]
            decoded == page.jsonld = "product"
            price1  == decoded /\ page.offers # Absent
            image1  == decoded /\ page.image # None
        IN  /\ result # Absent
            /\ result[1].price =
                 IF price1 THEN Some(clean_price(page.offers[1]))
                 ELSE Tier2Price(page)
            /\ result[1].img_url =
                 IF image1 THEN page.image ELSE Tier2Image(page)

\* a block that does not decode, on a page whose HTML elements give both
C28_Witness ==
    /\ scrape_pc = "returned"
    /\ fetched # Absent
    /\ fetched[1].jsonld = "malformed"
    /\ fetched[1].offers = Some(<<"1", ".", "1", "0">>)
    /\ fetched[1].html = Some(<<"R", "p", "1", "0", "0">>)
    /\ fetched[1].image = "img"
    /\ fetched[1].main_image = None
    /\ fetched[1].gallery_image = "img3"
    /\ result = Some([price |-> Some(100), img_url |-> "img3"])

(***************************************************************************)
(* Claims about the image cache                                            *)
(***************************************************************************)

\* C24: once a call has downloaded the image, stored it and returned, a call
\* for the same URL that begins later finds the cache file and returns the
\* stored bytes from it, issuing no request.
C24_LaterFetchServedFromCache ==
    [][ \A t \in Threads :
          after_store[t] =>
            /\ (fetch_pc[t] = "exists" /\ fetch_pc'[t] # "exists")
                 => fetch_pc'[t] = "read"
            /\ (fetch_pc[t] = "read" /\ fetch_pc'[t] = "idle")
                 => img_bytes'[t] = Some(Content) ]_vars

\* C25: no call returns bytes read from a cache file that holds less than the
\* whole image: what a call returns is None or the whole image.
C25_NoPartialRead ==
    \A t \in Threads :
        img_bytes[t] \in {Absent, Some(NoImage), Some(Content)}

\* thread t's retrieval of an image fails in this step: the GET, the opening
\* of the cache file or the writing of it
RetrievalFails(t) == Get(t, FALSE) \/ Open(t, FALSE) \/ Write(t, FALSE)

\* C26: a retrieval of an image that fails (the download, the HTTP status, the
\* reading or the writing of the cache file) makes _get_image_bytes return
\* None and raise nothing: _task returns its triple, whose price and image URL
\* run() delivers in item_scraped, and the calls of the other threads are as
\* they were.  A cache file that cannot be read is no failure yet: the call
\* goes on to download the image.
C26_FailedImageIsNoFailure ==
    /\ [][ \A t \in Threads :
            /\ RetrievalFails(t) =>
                 /\ img_bytes'[t] = Some(NoImage)
                 /\ \A o \in Threads \ {t} :
                      /\ fetch_pc'[o] = fetch_pc[o]
                      /\ img_bytes'[o] = img_bytes[o]
                      /\ scraped'[o] = scraped[o]
            /\ Read(t, FALSE) => fetch_pc'[t] = "get" ]_vars
    /\ [](\A t \in Threads :
            (fetch_pc[t] = "idle" /\ img_bytes[t] # Absent) =>
               LET r == TaskReturn(t)
               IN  /\ r.exc = None
                   /\ (r.img_url # None /\ r.img_bytes = NoImage) =>
                        /\ HasUpdates(r)
                        /\ Updates(r) = [price     |-> scraped[t].price,
                                         image_url |-> scraped[t].img_url])

\* one thread's write of the cache file has failed, with a price and an image
\* URL scraped, while the other thread's call is on its way
C26_Witness ==
    /\ fetch_pc[1] = "idle"
    /\ img_bytes[1] = Some(NoImage)
    /\ scraped[1] = [price |-> Some(100), img_url |-> "img"]
    /\ cache_file = Some(<<"b1">>)
    /\ is_running
    /\ fetch_pc[2] = "get"

(***************************************************************************)
(* Claims about what is reported for an item                               *)
(***************************************************************************)
NoDataCauses ==
    InvalidUrlResults \cup NotFoundResults \cup ExtractionFailureResults

C29_PartialResultsFieldByField ==
    [][ \A r \in PageResults :
          Handle(r) =>
            /\ (r.price = Absent /\ r.img_url # None) =>
                 UNCHANGED <<current_price, previous_price, history>>
            /\ (r.price # Absent /\ r.img_url = None) =>
                 UNCHANGED image_url ]_vars

\* an image URL was stored for an item that has had no price yet, and on a
\* later day a price for an item whose image URL stayed
C29_Witness ==
    /\ image_url = "img3"
    /\ current_price = 110
    /\ history = <<Row(today, 110)>>
    /\ today > 1

\* C30: what the listener has received of a non-empty batch begins with
\* scraping_started carrying the number of tasks, holds no second
\* scraping_started, and holds nothing after scraping_finished: every
\* progress, item_scraped and error of the batch lies between the two.
C30_EventsAreBracketed ==
    (tasks # << >> /\ events # << >>) =>
        /\ events[1] = [type |-> "scraping_started", total |-> Len(tasks)]
        /\ \A j \in DOMAIN events :
             /\ events[j].type = "scraping_started" => j = 1
             /\ events[j].type = "finished" => j = Len(events)

\* a batch of three tasks delivered whole: scraping_started, a terminal signal
\* and a progress for each task, scraping_finished
C30_Witness ==
    /\ Len(tasks) = 3
    /\ Len(events) = 8
    /\ events[8].type = "finished"
    /\ events[7] = [type |-> "progress_updated", n |-> 3]

\* C31: at no time are more tasks of a batch executing than MAX_WORKERS, the
\* size of the pool, however many tasks the batch holds.
C31_AtMostPoolSizeExecuting == Cardinality(Executing) <= MAX_WORKERS

\* the pool is full while a task of the batch still waits for a thread
C31_Witness ==
    /\ Cardinality(Executing) = MAX_WORKERS
    /\ Pending # {}
    /\ Len(tasks) > MAX_WORKERS

\* every task of the batch has its terminal signal, and progress(N) was emitted
AllReported ==
    LET E == Emitted
    IN  /\ tasks # << >>
        /\ Cardinality({ j \in DOMAIN E : IsTerminal(E[j]) }) = Len(tasks)
        /\ \E j \in DOMAIN E : IsProgress(E[j]) /\ E[j].n = Len(tasks)

\* C32 as stated: a batch in which every task's terminal event and
\* progress(N) were emitted ends with finished(false).
C32_CompleteBatchFinishedFalse ==
    (FinishedDelivered /\ AllReported) => ~Last(events).was_cancelled

\* C32: finished(true) is emitted only for a batch a cancel request reached
\* before the manager handled the worker's finished signal, so a batch in
\* which every task's terminal event and progress(N) were emitted, and which
\* no cancel request reached, ends with finished(false).
C32_FlagTellsCancelRequest ==
    FinishedDelivered =>
        /\ Last(events).was_cancelled => cancelled
        /\ (AllReported /\ ~cancelled) => ~Last(events).was_cancelled

\* a batch of MaxTasks tasks was reported whole and ended with finished(false)
C32_Witness ==
    /\ FinishedDelivered
    /\ AllReported
    /\ Len(tasks) = MaxTasks
    /\ ~Last(events).was_cancelled

\* C33 as stated: a page request follows only a connection failure, a timeout
\* or a 5xx response, and a 4xx response ends the call with no request after
\* it.
C33_ClientErrorIsTerminal ==
    \A k \in DOMAIN outcomes :
        /\ k < Len(outcomes) => outcomes[k] \in TransientErrors
        /\ outcomes[k] \in {"not_found", "forbidden"} =>
             k = Len(outcomes) /\ scrape_pc = "returned"

\* C34 as stated: a call that has made k page requests and returned has
\* waited k-1 times, and the call never waits after its last request.
C34_WaitsOnlyBetweenAttempts ==
    /\ sleeps <= Len(outcomes)
    /\ (scrape_pc \in {"check", "parse", "returned"} /\ outcomes # << >>)
         => sleeps = Len(outcomes) - 1

\* C35: after a cancel request has reached a batch, run() emits at most one
\* further terminal signal (with its progress) in that batch, however many
\* tasks complete afterwards.
C35_AtMostOneEventAfterCancel == after_cancel <= 1

\* a batch of MaxTasks tasks was cancelled before its first report; all its
\* tasks ran to their end, one was reported after the cancel request
C35_Witness ==
    /\ pc = "returned"
    /\ cancelled
    /\ Len(tasks) = MaxTasks
    /\ Done = Idx
    /\ after_cancel = 1
    /\ completed = 1

\* C36: once run() has emitted finished, no task of the batch is executing
\* and none can begin: every task handed to the pool has returned or raised,
\* so no request of the batch is in flight and no _task writes a cache file.
C36_NoTaskRunsAtFinished ==
    BatchEnded =>
        /\ Executing = {}
        /\ ~(ExecutorAlive /\ Pending # {})
        /\ pc = "returned" => Done = Idx

\* a cancelled batch of MaxTasks tasks has emitted finished: the loop took
\* one future only, and the shutdown waited for the others
C36_Witness ==
    /\ pc = "returned"
    /\ cancelled
    /\ Len(tasks) = MaxTasks
    /\ Cardinality(yielded) = 1
    /\ Done = Idx

\* C37: a cancel request made while no batch is running emits no event and
\* changes nothing of the manager (with no worker, nothing at all); a batch
\* started afterwards begins with its flag set, and is reported
\* finished(true) only if a cancel request reached that batch.
C37_StrayCancelHasNoEffect ==
    /\ [][ (stray_cancel # "requested" /\ stray_cancel' = "requested") =>
             /\ UNCHANGED <<worker_thread, worker, tasks, pc, futures, yielded,
                            cur, completed, queue, events, cancelled,
                            unstartedAtCancel, in_on_finished>>
             /\ worker = None => UNCHANGED orch ]_vars
    /\ [][ (~IsRunning /\ IsRunning') => (is_running' /\ ~cancelled') ]_vars
    /\ [](( /\ stray_cancel = "before_batch"
            /\ FinishedDelivered
            /\ Last(events).was_cancelled ) => cancelled)

\* a batch started after a cancel request that met no batch was reported
\* whole and ended with finished(false)
C37_Witness ==
    /\ stray_cancel = "before_batch"
    /\ FinishedDelivered
    /\ AllReported
    /\ ~Last(events).was_cancelled

\* C38: for an item created by add_item_to_profile and changed since only by
\* update_item_history and reset_item_history, under a clock that does not
\* go back, whenever the history is non-empty the item's current_price is the
\* price of its latest-dated history entry.
C38_CurrentPriceIsLatestEntry ==
    history # << >> =>
        \A i \in LastEntries(history) : history[i].price = current_price

\* a history longer than one day, whose latest entry an update wrote with a
\* price other than the first entry's
C38_Witness ==
    /\ Len(history) >= 2
    /\ last_op # Absent
    /\ last_op[1].op = "update"
    /\ history[Len(history)].date = today
    /\ history[Len(history)].price = current_price
    /\ history[1].price # current_price

\* the history rows of an item, in the order of their row ids
HistoryOf(item_id) == SelectSeq(price_history, LAMBDA row : row.item_id = item_id)

\* C39: update_item_history and reset_item_history for one item id leave the
\* prices and the history rows of every other item as they were, and
\* update_item_history for an id with no row in items changes nothing and
\* creates no history row.
C39_OtherItemsUntouched ==
    [][ \A id \in ItemIds :
          /\ \A o \in ItemIds \ {id} :
               \/ items'[o] = items[o] /\ HistoryOf(o)' = HistoryOf(o)
               \/ ~( (\E p \in ItemPrices : UpdateItemHistory(id, p))
                     \/ ResetItemHistory(id) )
          /\ \/ items[id] # Absent
             \/ UNCHANGED <<items, price_history>>
             \/ ~(\E p \in ItemPrices : UpdateItemHistory(id, p)) ]_vars

\* update_item_history was called for an item deleted with its history rows
\* left behind, while the other item has a history longer than the retention
\* count
C39_Witness ==
    /\ missing_call
    /\ \E id \in ItemIds :
         /\ items[id] = Absent
         /\ Mine(id) # {}
         /\ \E o \in ItemIds \ {id} :
              /\ items[o] # Absent
              /\ Cardinality(Mine(o)) > MAX_HISTORY_ENTRIES

====
